---- MODULE Spec2Model ----
(***************************************************************************)
(* A model of OpenFermion-Psi4:                                            *)
(*   - run_psi4 and clean_up            (openfermionpsi4/_run_psi4.py)      *)
(*   - unpack_spatial_rdm               (_psi4_conversion_functions.py)     *)
(*   - parse_psi4_ccsd_amplitudes       (_psi4_conversion_functions.py)     *)
(*   - generate_psi4_input              (openfermionpsi4/_run_psi4.py)      *)
(*   - parse_sdf_geometry, parse_psi4_geometry, extract                    *)
(*                                      (_openfermion_pubchem.py)          *)
(* Each part has its own specification (SpecRun, SpecRdm, SpecAmp,         *)
(* SpecTpl, SpecGeo, SpecExt) over its own variables; the variables of the *)
(* other parts stay at their initial value.                                *)
(***************************************************************************)
EXTENDS Integers, Sequences, FiniteSets

VARIABLES
    \* ---- run_psi4 / clean_up ----
    pc,              \* position in run_psi4: "idle", "launch", "wait", "except",
                     \* "else", "reload", "returned", "raised"
    files,           \* the files of the working directory that exist
    tolerate_error,  \* argument of the current run_psi4 call
    delete_input,    \* argument of the current run_psi4 call
    delete_output,   \* argument of the current run_psi4 call
    process,         \* the local `process`: "unbound", "running", "exited", "killed"
    exit_status,     \* what process.wait() returned: -1 (nothing yet), 0, 1
    failure,         \* which call of the try body raised: "none", "launch", "wait"
    pending,         \* the exception the try body raised ("none" if none)
    cleanups,        \* number of clean_up calls made by the current run_psi4 call
    error,           \* the exception that left run_psi4 ("none" if none)
    load_result,     \* molecule.load(): "not_attempted", "ok", "failed"
    warned,          \* warnings.warn was called by the current run_psi4 call
    returned,        \* run_psi4 returned the molecule object
    cu_calls,        \* the direct clean_up calls made in succession (history)
    \* ---- unpack_spatial_rdm ----
    rdm_pc,          \* "start", "done"
    rdm_in,          \* the five compact inputs
    rdm_out,         \* [one_rdm, two_rdm] once rdm_pc = "done"
    \* ---- parse_psi4_ccsd_amplitudes ----
    amp_pc,          \* "start", "done"
    amp_in,          \* [number_orbitals, n_alpha_electrons, n_beta_electrons, output_buffer]
    amp_out,         \* [raised, single_amplitudes, double_amplitudes]
    \* ---- generate_psi4_input ----
    tpl_pc,          \* "start", "done"
    tpl_in,          \* [template, basis, description]
    tpl_out,         \* the text written to the input file
    \* ---- parse_sdf_geometry / parse_psi4_geometry ----
    geo_pc,          \* "start", "done"
    geo_in,          \* [geom, n_atoms]
    geo_out,         \* [raised, opf_geom] of the parser that was applied
    \* ---- extract ----
    ext_pc,          \* "start", "lookup2d", "returned", "raised"
    ext_in,          \* what PubChem and psi4 answer for the name
    ext_out,         \* the value returned (0 is the sentinel)
    ext_log          \* the lookups made, in order

runVars == <<pc, files, tolerate_error, delete_input, delete_output, process,
             exit_status, failure, pending, cleanups, error, load_result,
             warned, returned, cu_calls>>
rdmVars == <<rdm_pc, rdm_in, rdm_out>>
ampVars == <<amp_pc, amp_in, amp_out>>
tplVars == <<tpl_pc, tpl_in, tpl_out>>
geoVars == <<geo_pc, geo_in, geo_out>>
extVars == <<ext_pc, ext_in, ext_out, ext_log>>
vars == <<runVars, rdmVars, ampVars, tplVars, geoVars, extVars>>

(***************************************************************************)
(* Bounds.                                                                 *)
(***************************************************************************)
\* How many direct clean_up calls in succession are followed.
MaxCleanUpCalls == 2
\* n_orbitals of the compact density matrices (one_rdm_a.shape[0]).
NOrbitals == 2
\* Longest transcript (number of lines of the psi4 output file) that is parsed.
MaxLines == 4
\* number_orbitals handed to parse_psi4_ccsd_amplitudes.
NumberOrbitals == 4
\* Longest template (in units of text) that is rendered.
MaxTemplateLen == 4
\* Most lines of a geometry source (geom.split('\n')), and largest n_atoms.
MaxGeomLines == 4
MaxAtoms == 2

(***************************************************************************)
(* The working directory.  The molecule's filename is fixed; the names are *)
(* the files the code touches: filename + '.inp', filename + '.out',       *)
(* 'timer.dat', one representative '*.clean' file, and the molecule's      *)
(* persisted record (filename + '.hdf5'), which molecule.load() reads.     *)
(***************************************************************************)
input_file == "mol.inp"
output_file == "mol.out"
timer_file == "timer.dat"
clean_file == "psi.clean"
hdf5_file == "mol.hdf5"
FileNames == {input_file, output_file, timer_file, clean_file, hdf5_file}

\* What the external program may leave behind while it runs.
Psi4Writes == {output_file, timer_file, clean_file, hdf5_file}

(***************************************************************************)
(* clean_up(molecule, delete_input, delete_output): the directory after   *)
(* the call and whether the call raised.  os.remove of an absent file     *)
(* raises FileNotFoundError; only the removal of timer.dat is guarded.    *)
(***************************************************************************)
\* A clean_up that tests delete_output for the input file and delete_input
\* for the output file.
clean_up_flags_swapped(fs, di, do) ==
    LET noClean == {f \in fs : f # clean_file}
        noTimer == noClean \ {timer_file}
    IN  IF do /\ input_file \notin noTimer
        THEN [files |-> noTimer, raised |-> TRUE]
        ELSE LET afterIn == IF do THEN noTimer \ {input_file} ELSE noTimer
             IN  IF di /\ output_file \notin afterIn
                 THEN [files |-> afterIn, raised |-> TRUE]
                 ELSE [files |-> IF di THEN afterIn \ {output_file} ELSE afterIn,
                       raised |-> FALSE]

clean_up(fs, di, do) ==
    LET noClean == {f \in fs : f # clean_file}      \* every *.clean file removed
        noTimer == noClean \ {timer_file}           \* try: os.remove('timer.dat') except: pass
    IN  IF di /\ input_file \notin noTimer
        THEN [files |-> noTimer, raised |-> TRUE]   \* os.remove(input_file) raises
        ELSE LET afterIn == IF di THEN noTimer \ {input_file} ELSE noTimer
             IN  IF do /\ output_file \notin afterIn
                 THEN [files |-> afterIn, raised |-> TRUE]   \* os.remove(output_file) raises
                 ELSE [files |-> IF do THEN afterIn \ {output_file} ELSE afterIn,
                       raised |-> FALSE]

Idle == {"idle", "returned", "raised"}

RunInit ==
    /\ pc = "idle"
    /\ files = {}
    /\ tolerate_error = FALSE
    /\ delete_input = TRUE
    /\ delete_output = FALSE
    /\ process = "unbound"
    /\ exit_status = -1
    /\ failure = "none"
    /\ pending = "none"
    /\ cleanups = 0
    /\ error = "none"
    /\ load_result = "not_attempted"
    /\ warned = FALSE
    /\ returned = FALSE
    /\ cu_calls = <<>>

\* run_psi4 is called: the arguments are bound and generate_psi4_input runs.
\* It writes the input file, or raises an IOError (template or target
\* unreadable), which leaves run_psi4 before the try statement.
run_psi4_call(te, di, do) ==
    /\ pc \in Idle
    /\ tolerate_error' = te
    /\ delete_input' = di
    /\ delete_output' = do
    /\ process' = "unbound"
    /\ exit_status' = -1
    /\ failure' = "none"
    /\ pending' = "none"
    /\ cleanups' = 0
    /\ load_result' = "not_attempted"
    /\ warned' = FALSE
    /\ returned' = FALSE
    /\ cu_calls' = <<>>
    /\ \E ok \in BOOLEAN :
          IF ok
          THEN /\ files' = files \cup {input_file}
               /\ pc' = "launch"
               /\ error' = "none"
          ELSE /\ files' = files
               /\ pc' = "raised"
               /\ error' = "IOError"
    /\ UNCHANGED <<rdmVars, ampVars, tplVars, geoVars, extVars>>

\* process = subprocess.Popen([...]): the handle is bound, or Popen raises
\* (psi4 not installed) and `process` stays unbound.
Popen ==
    /\ pc = "launch"
    /\ \E ok \in BOOLEAN :
          IF ok
          THEN /\ process' = "running"
               /\ pc' = "wait"
               /\ UNCHANGED <<failure, pending>>
          ELSE /\ process' = "unbound"
               /\ failure' = "launch"
               /\ pending' = "OSError"
               /\ pc' = "except"
    /\ UNCHANGED <<files, tolerate_error, delete_input, delete_output, exit_status,
                   cleanups, error, load_result, warned, returned, cu_calls>>
    /\ UNCHANGED <<rdmVars, ampVars, tplVars, geoVars, extVars>>

\* process.wait(): the external program runs and leaves files behind; wait
\* returns its exit status, whatever it is, or raises (an interrupt).
wait ==
    /\ pc = "wait"
    /\ \E written \in SUBSET Psi4Writes, status \in {0, 1}, ok \in BOOLEAN :
          /\ files' = files \cup written
          /\ IF ok
             THEN /\ process' = "exited"
                  /\ exit_status' = status
                  /\ pc' = "else"
                  /\ UNCHANGED <<failure, pending>>
             ELSE /\ process' = "running"
                  /\ exit_status' = -1
                  /\ failure' = "wait"
                  /\ pending' = "KeyboardInterrupt"
                  /\ pc' = "except"
    /\ UNCHANGED <<tolerate_error, delete_input, delete_output,
                   cleanups, error, load_result, warned, returned, cu_calls>>
    /\ UNCHANGED <<rdmVars, ampVars, tplVars, geoVars, extVars>>

\* The except clause: print, process.kill(), clean_up(...), and raise unless
\* tolerate_error.  With `process` unbound, process.kill() raises
\* UnboundLocalError and the rest of the clause is not executed.
except_clause ==
    /\ pc = "except"
    /\ IF process = "unbound"
       THEN /\ error' = "UnboundLocalError"
            /\ pc' = "raised"
            /\ UNCHANGED <<files, process, cleanups>>
       ELSE LET r == clean_up(files, delete_input, delete_output)
            IN  /\ process' = "killed"
                /\ files' = r.files
                /\ cleanups' = cleanups + 1
                /\ IF r.raised
                   THEN error' = "FileNotFoundError" /\ pc' = "raised"
                   ELSE IF ~tolerate_error
                        THEN error' = pending /\ pc' = "raised"
                        ELSE error' = "none" /\ pc' = "reload"
    /\ UNCHANGED <<tolerate_error, delete_input, delete_output, exit_status,
                   failure, pending, load_result, warned, returned, cu_calls>>
    /\ UNCHANGED <<rdmVars, ampVars, tplVars, geoVars, extVars>>

\* The else clause: clean_up(...) after a wait that returned.
else_clause ==
    /\ pc = "else"
    /\ LET r == clean_up(files, delete_input, delete_output)
       IN  /\ files' = r.files
           /\ cleanups' = cleanups + 1
           /\ IF r.raised
              THEN error' = "FileNotFoundError" /\ pc' = "raised"
              ELSE error' = "none" /\ pc' = "reload"
    /\ UNCHANGED <<tolerate_error, delete_input, delete_output, process, exit_status,
                   failure, pending, load_result, warned, returned, cu_calls>>
    /\ UNCHANGED <<rdmVars, ampVars, tplVars, geoVars, extVars>>

\* A variant of the reload step without the except clause: a failed load
\* leaves run_psi4 as an error.
load_propagates ==
    /\ pc = "reload"
    /\ \E ok \in BOOLEAN :
          /\ ok => hdf5_file \in files
          /\ load_result' = IF ok THEN "ok" ELSE "failed"
          /\ warned' = FALSE
          /\ returned' = ok
          /\ pc' = IF ok THEN "returned" ELSE "raised"
          /\ error' = IF ok THEN error ELSE "IOError"
    /\ UNCHANGED <<files, tolerate_error, delete_input, delete_output, process,
                   exit_status, failure, pending, cleanups, cu_calls>>
    /\ UNCHANGED <<rdmVars, ampVars, tplVars, geoVars, extVars>>

\* try: molecule.load() except: warnings.warn(...); return molecule.
\* The load fails when nothing was persisted, and may fail otherwise.
load ==
    /\ pc = "reload"
    /\ \E ok \in BOOLEAN :
          /\ ok => hdf5_file \in files
          /\ load_result' = IF ok THEN "ok" ELSE "failed"
          /\ warned' = ~ok
    /\ returned' = TRUE
    /\ pc' = "returned"
    /\ UNCHANGED <<files, tolerate_error, delete_input, delete_output, process,
                   exit_status, failure, pending, cleanups, error, cu_calls>>
    /\ UNCHANGED <<rdmVars, ampVars, tplVars, geoVars, extVars>>

\* clean_up called directly by a user, outside run_psi4.
clean_up_call(di, do) ==
    /\ pc \in Idle
    /\ Len(cu_calls) < MaxCleanUpCalls
    /\ LET r == clean_up(files, di, do)
       IN  /\ files' = r.files
           /\ cu_calls' = Append(cu_calls, [delete_input |-> di, delete_output |-> do,
                                            raised |-> r.raised])
    /\ UNCHANGED <<pc, tolerate_error, delete_input, delete_output, process,
                   exit_status, failure, pending, cleanups, error, load_result,
                   warned, returned>>
    /\ UNCHANGED <<rdmVars, ampVars, tplVars, geoVars, extVars>>

\* The parts that a specification does not exercise.
RdmIdle == rdm_pc = "off" /\ rdm_in = <<>> /\ rdm_out = <<>>
AmpIdle == amp_pc = "off" /\ amp_in = <<>> /\ amp_out = <<>>
TplIdle == tpl_pc = "off" /\ tpl_in = <<>> /\ tpl_out = <<>>
GeoIdle == geo_pc = "off" /\ geo_in = <<>> /\ geo_out = <<>>
ExtIdle == ext_pc = "off" /\ ext_in = <<>> /\ ext_out = <<>> /\ ext_log = <<>>
OthersIdle == TplIdle /\ GeoIdle /\ ExtIdle

InitRun == RunInit /\ RdmIdle /\ AmpIdle /\ OthersIdle

NextRun ==
    \/ \E te \in BOOLEAN, di \in BOOLEAN, do \in BOOLEAN : run_psi4_call(te, di, do)
    \/ Popen
    \/ wait
    \/ except_clause
    \/ else_clause
    \/ load
    \/ \E di \in BOOLEAN, do \in BOOLEAN : clean_up_call(di, do)

SpecRun == InitRun /\ [][NextRun]_vars

(***************************************************************************)
(* Properties of run_psi4 and clean_up (checked under SpecRun).            *)
(***************************************************************************)
\* The run_psi4 call has ended (returned or raised) after reaching the try
\* statement, i.e. after generate_psi4_input succeeded.
AttemptEnded == pc \in {"returned", "raised"} /\ error # "IOError"

\* C1: clean_up is executed exactly once in every run attempt, whether the
\* launch and the wait succeed, the wait raises or the launch raises, for
\* both values of tolerate_error.
C1_CleanupExactlyOnce == AttemptEnded => cleanups = 1

\* C2: when the launch or the wait raised, clean_up has run, and the outcome
\* is decided by tolerate_error alone: false re-raises the original error,
\* true lets run_psi4 reload and return the molecule.
C2_FailureDecidedByTolerate ==
    (AttemptEnded /\ failure # "none") =>
        /\ cleanups = 1
        /\ IF tolerate_error
           THEN pc = "returned" /\ error = "none" /\ returned
           ELSE pc = "raised" /\ error = pending

\* C3: a non-zero exit status of the external program is fatal when
\* tolerate_error is false: an error propagates to the caller.
C3_NonZeroExitFatal ==
    (AttemptEnded /\ exit_status = 1 /\ ~tolerate_error) => pc = "raised"

\* C4: the reload is attempted only after the one clean_up of a process step
\* that propagated no error; every run that passes the process step ends by
\* returning the molecule, and a failed reload is a warning, never an error.
C4_ReloadNeverPropagates ==
    /\ pc = "reload" => cleanups = 1 /\ error = "none"
    /\ load_result # "not_attempted" =>
          /\ cleanups = 1
          /\ pc = "returned" /\ returned /\ error = "none"
          /\ (load_result = "failed") = warned
    /\ pc = "returned" => load_result # "not_attempted"
    /\ pc = "raised" => load_result = "not_attempted" /\ ~returned

\* C4 witness: a tolerated failure of the wait, then a failed reload: the
\* molecule is returned with a warning.
C4_Witness ==
    /\ pc = "returned" /\ returned
    /\ failure = "wait" /\ tolerate_error
    /\ load_result = "failed" /\ warned

\* C5: of two direct clean_up calls in succession with the same flags, the
\* first of which completed, the second does not raise.
C5_CleanUpIdempotent ==
    \A k \in 1 .. (Len(cu_calls) - 1) :
        ( /\ cu_calls[k].delete_input = cu_calls[k + 1].delete_input
          /\ cu_calls[k].delete_output = cu_calls[k + 1].delete_output
          /\ ~cu_calls[k].raised )
        => ~cu_calls[k + 1].raised

(***************************************************************************)
(* unpack_spatial_rdm.  A tensor is a function on index tuples; the        *)
(* entries are integers (the code does no arithmetic on them but           *)
(* negation, which is exact).                                              *)
(***************************************************************************)
Orb == 0 .. (NOrbitals - 1)
Orb2 == Orb \X Orb
Orb4 == Orb \X Orb \X Orb \X Orb
n_qubits == 2 * NOrbitals
Qubit == 0 .. (n_qubits - 1)
Qubit2 == Qubit \X Qubit
Qubit4 == Qubit \X Qubit \X Qubit \X Qubit

\* one_rdm after the loop: one_rdm[2p, 2q] = one_rdm_a[p, q],
\* one_rdm[2p+1, 2q+1] = one_rdm_b[p, q], every other entry as numpy.zeros left it.
one_rdm_entry(in, P, Q) ==
    LET p == P \div 2
        q == Q \div 2
    IN  CASE P % 2 = 0 /\ Q % 2 = 0 -> in.one_rdm_a[<<p, q>>]
          [] P % 2 = 1 /\ Q % 2 = 1 -> in.one_rdm_b[<<p, q>>]
          [] OTHER -> 0

\* The mixed-spin assignments with the factor -1. of the two swapped blocks
\* left out.
two_rdm_loop_entry_unsigned(in, P, Q, R, S) ==
    LET p == P \div 2
        q == Q \div 2
        r == R \div 2
        s == S \div 2
        par == <<P % 2, Q % 2, R % 2, S % 2>>
    IN  CASE par = <<0, 0, 0, 0>> -> in.two_rdm_aa[<<p, r, q, s>>]
          [] par = <<1, 1, 1, 1>> -> in.two_rdm_bb[<<p, r, q, s>>]
          [] par = <<0, 1, 0, 1>> -> in.two_rdm_ab[<<p, r, q, s>>]
          [] par = <<0, 1, 1, 0>> -> in.two_rdm_ab[<<p, s, q, r>>]
          [] par = <<1, 0, 1, 0>> -> in.two_rdm_ab[<<q, s, p, r>>]
          [] par = <<1, 0, 0, 1>> -> in.two_rdm_ab[<<q, r, p, s>>]
          [] OTHER -> 0

\* The mixed-spin assignments with the swapped blocks read at the unswapped
\* position of two_rdm_ab (r and s not exchanged on the right-hand side).
two_rdm_loop_entry_unswapped(in, P, Q, R, S) ==
    LET p == P \div 2
        q == Q \div 2
        r == R \div 2
        s == S \div 2
        par == <<P % 2, Q % 2, R % 2, S % 2>>
    IN  CASE par = <<0, 0, 0, 0>> -> in.two_rdm_aa[<<p, r, q, s>>]
          [] par = <<1, 1, 1, 1>> -> in.two_rdm_bb[<<p, r, q, s>>]
          [] par = <<0, 1, 0, 1>> -> in.two_rdm_ab[<<p, r, q, s>>]
          [] par = <<0, 1, 1, 0>> -> (-1) * in.two_rdm_ab[<<p, r, q, s>>]
          [] par = <<1, 0, 1, 0>> -> in.two_rdm_ab[<<q, s, p, r>>]
          [] par = <<1, 0, 0, 1>> -> (-1) * in.two_rdm_ab[<<q, s, p, r>>]
          [] OTHER -> 0

\* two_rdm after the quadruple loop, before the einsum.  Each of the six
\* assignments of the loop body writes the entries of one parity pattern of
\* (P, Q, R, S), once each, so the loop is this case distinction; the other
\* entries stay as numpy.zeros left them.
two_rdm_loop_entry(in, P, Q, R, S) ==
    LET p == P \div 2
        q == Q \div 2
        r == R \div 2
        s == S \div 2
        par == <<P % 2, Q % 2, R % 2, S % 2>>
    IN  CASE par = <<0, 0, 0, 0>> -> in.two_rdm_aa[<<p, r, q, s>>]
          [] par = <<1, 1, 1, 1>> -> in.two_rdm_bb[<<p, r, q, s>>]
          [] par = <<0, 1, 0, 1>> -> in.two_rdm_ab[<<p, r, q, s>>]
          [] par = <<0, 1, 1, 0>> -> (-1) * in.two_rdm_ab[<<p, s, q, r>>]
          [] par = <<1, 0, 1, 0>> -> in.two_rdm_ab[<<q, s, p, r>>]
          [] par = <<1, 0, 0, 1>> -> (-1) * in.two_rdm_ab[<<q, r, p, s>>]
          [] OTHER -> 0

\* numpy.einsum('pqsr', two_rdm): with no output given the result's axes are
\* the labels in alphabetical order, so result[p, q, r, s] = two_rdm[p, q, s, r].
einsum_pqsr(t) == [i \in Qubit4 |-> t[<<i[1], i[2], i[4], i[3]>>]]

unpack_spatial_rdm(in) ==
    [one_rdm |-> [i \in Qubit2 |-> one_rdm_entry(in, i[1], i[2])],
     two_rdm |-> einsum_pqsr([i \in Qubit4 |->
                                 two_rdm_loop_entry(in, i[1], i[2], i[3], i[4])])]

(***************************************************************************)
(* The compact inputs that are enumerated: for each tensor a base (zero,   *)
(* a dense tensor without symmetry, or for the same-spin tensors one that  *)
(* is antisymmetric), and on top of the bases one entry of one of the      *)
(* three 4-index tensors changed by a chosen amount.                       *)
(***************************************************************************)
Zero2 == [i \in Orb2 |-> 0]
Dense2 == [i \in Orb2 |-> 1 + i[1] + 2 * i[2]]
Zero4 == [i \in Orb4 |-> 0]
Dense4 == [i \in Orb4 |-> 1 + i[1] + 2 * i[2] + 3 * i[3] + 5 * i[4]]
Anti4 == [i \in Orb4 |-> (i[1] - i[3]) * (i[2] - i[4])]
Perturbed(t, idx, d) == [t EXCEPT ![idx] = @ + d]
PerturbValues == {-1, 2}

RdmInputs ==
    { [one_rdm_a |-> a, one_rdm_b |-> b,
       two_rdm_aa |-> IF w = "aa" THEN Perturbed(aa, idx, d) ELSE aa,
       two_rdm_ab |-> IF w = "ab" THEN Perturbed(ab, idx, d) ELSE ab,
       two_rdm_bb |-> IF w = "bb" THEN Perturbed(bb, idx, d) ELSE bb] :
         a \in {Dense2}, b \in {Zero2},
         aa \in {Anti4, Dense4}, ab \in {Dense4}, bb \in {Zero4, Anti4},
         w \in {"none", "aa", "ab", "bb"}, idx \in Orb4, d \in PerturbValues }

RunIdle ==
    /\ pc = "off" /\ files = {} /\ tolerate_error = FALSE /\ delete_input = FALSE
    /\ delete_output = FALSE /\ process = "unbound" /\ exit_status = -1
    /\ failure = "none" /\ pending = "none" /\ cleanups = 0 /\ error = "none"
    /\ load_result = "not_attempted" /\ warned = FALSE /\ returned = FALSE
    /\ cu_calls = <<>>

InitRdm ==
    /\ rdm_pc = "start"
    /\ rdm_in \in RdmInputs
    /\ rdm_out = <<>>
    /\ RunIdle /\ AmpIdle /\ OthersIdle

unpack ==
    /\ rdm_pc = "start"
    /\ rdm_out' = unpack_spatial_rdm(rdm_in)
    /\ rdm_pc' = "done"
    /\ UNCHANGED <<rdm_in, runVars, ampVars, tplVars, geoVars, extVars>>

NextRdm == unpack

SpecRdm == InitRdm /\ [][NextRdm]_vars

(***************************************************************************)
(* Properties of unpack_spatial_rdm (checked under SpecRdm).               *)
(***************************************************************************)
\* two_rdm[p,q,r,s] = -two_rdm[p,q,s,r] and two_rdm[p,q,r,s] = -two_rdm[q,p,r,s].
Antisymmetric(t) ==
    \A i \in Qubit4 :
        /\ t[i] = -t[<<i[1], i[2], i[4], i[3]>>]
        /\ t[i] = -t[<<i[2], i[1], i[3], i[4]>>]

\* A compact same-spin tensor changes sign under exchange of its second and
\* fourth index and under exchange of its first and third index.
CompactAntisymmetric(t) ==
    \A i \in Orb4 :
        /\ t[i] = -t[<<i[1], i[4], i[3], i[2]>>]
        /\ t[i] = -t[<<i[3], i[2], i[1], i[4]>>]

\* C6 as stated: for arbitrary compact inputs the returned two_rdm is
\* antisymmetric under exchange of its last two and of its first two indices.
C6_AntisymmetricForAnyInput ==
    rdm_pc = "done" => Antisymmetric(rdm_out.two_rdm)

\* C6 amended: for arbitrary one_rdm_a, one_rdm_b and two_rdm_ab, and for
\* two_rdm_aa and two_rdm_bb that are themselves antisymmetric, the returned
\* two_rdm is antisymmetric in its last two and in its first two indices.
C6_AntisymmetricForAntisymmetricSameSpin ==
    ( /\ rdm_pc = "done"
      /\ CompactAntisymmetric(rdm_in.two_rdm_aa)
      /\ CompactAntisymmetric(rdm_in.two_rdm_bb) )
    => Antisymmetric(rdm_out.two_rdm)

\* C6 witness: unpacked from a non-zero antisymmetric two_rdm_aa and a
\* two_rdm_ab that has no symmetry.
C6_Witness ==
    /\ rdm_pc = "done"
    /\ rdm_in.two_rdm_aa = Anti4
    /\ CompactAntisymmetric(rdm_in.two_rdm_bb)
    /\ rdm_in.two_rdm_ab # Zero4
    /\ ~CompactAntisymmetric(rdm_in.two_rdm_ab)
    /\ \E i \in Qubit4 : rdm_out.two_rdm[i] # 0 /\ i[1] % 2 # i[2] % 2

\* The number of odd (beta) indices of a pair.
OddCount(a, b) == (a % 2) + (b % 2)

\* C15: for arbitrary two_rdm_ab the mixed-spin part of two_rdm is
\* antisymmetric on its own (entries whose first pair and last pair each hold
\* one even and one odd index change sign under either exchange); entries
\* whose first and last pair hold different numbers of odd indices are zero;
\* so antisymmetry can fail only at all-even or all-odd index tuples.
C15_MixedSpinAntisymmetric ==
    rdm_pc = "done" =>
        \A i \in Qubit4 :
            LET t == rdm_out.two_rdm
                lastSwapped == <<i[1], i[2], i[4], i[3]>>
                firstSwapped == <<i[2], i[1], i[3], i[4]>>
                sameSpin == i[1] % 2 = i[2] % 2 /\ i[2] % 2 = i[3] % 2
                                /\ i[3] % 2 = i[4] % 2
            IN  /\ (OddCount(i[1], i[2]) = 1 /\ OddCount(i[3], i[4]) = 1) =>
                      t[i] = -t[lastSwapped] /\ t[i] = -t[firstSwapped]
                /\ OddCount(i[1], i[2]) # OddCount(i[3], i[4]) => t[i] = 0
                /\ (t[i] # -t[lastSwapped] \/ t[i] # -t[firstSwapped]) => sameSpin

\* C15 witness: unpacked from a two_rdm_ab and a two_rdm_aa without any
\* symmetry: the output is not antisymmetric, its mixed-spin part is non-zero.
C15_Witness ==
    /\ rdm_pc = "done"
    /\ ~CompactAntisymmetric(rdm_in.two_rdm_ab)
    /\ ~CompactAntisymmetric(rdm_in.two_rdm_aa)
    /\ ~Antisymmetric(rdm_out.two_rdm)
    /\ \E i \in Qubit4 : OddCount(i[1], i[2]) = 1 /\ rdm_out.two_rdm[i] # 0


\* The files clean_up may remove.
Removable == {clean_file, timer_file, input_file, output_file}

\* The clean_up of a run that goes on to return (the reload cannot fail the
\* run), and the steps of the run after it.
CleanUpOfReturningRun == pc \in {"else", "except"} /\ pc' = "reload"
DirectCleanUp == cu_calls' # cu_calls /\ cu_calls' # <<>>

\* C14: after a run_psi4 that returns normally the input file exists exactly
\* when delete_input is false, and an output file the external program wrote
\* exists exactly when delete_output is false, for every combination of the
\* two flags; clean_up, inside run_psi4 or called directly, leaves every file
\* other than the .clean files, timer.dat, the input and the output file as
\* it was and creates none.
C14_FlagsFrameEffect ==
    /\ [](pc = "returned" /\ cu_calls = <<>> =>
            /\ input_file \in files <=> ~delete_input
            /\ delete_output => output_file \notin files)
    /\ [][/\ CleanUpOfReturningRun =>
                /\ input_file \in files' <=> ~delete_input
                /\ output_file \in files => (output_file \in files' <=> ~delete_output)
          /\ pc = "reload" => files' = files
          /\ (pc \in {"else", "except"} \/ DirectCleanUp) =>
                /\ files' \subseteq files
                /\ files' \ Removable = files \ Removable]_vars

\* C14 witness: a run with delete_input set and delete_output clear has
\* returned: the input file is gone, the output and the hdf5 file the external
\* program wrote are still there.
C14_Witness ==
    /\ pc = "returned" /\ cu_calls = <<>>
    /\ delete_input /\ ~delete_output
    /\ input_file \notin files
    /\ output_file \in files
    /\ hdf5_file \in files

(***************************************************************************)
(* parse_psi4_ccsd_amplitudes.                                             *)
(*                                                                         *)
(* A line of the transcript is [hdrs, toks]: the section headers that      *)
(* occur in it as substrings, and line.split().  A token is an integer     *)
(* literal (int() and float() accept it), a decimal literal (only float()  *)
(* accepts it) or a word (neither does).  Amplitudes are counted in units  *)
(* of 0.0005, so that "0.05" is 100 and value / 2. is exact, as it is in   *)
(* binary floating point.                                                  *)
(***************************************************************************)
Headers == {"TIA", "Tia", "TIJAB", "Tijab", "TIjAb"}

IntTok(n) == [k |-> "int", v |-> n]
FloatTok(v) == [k |-> "float", v |-> v]
WordTok == [k |-> "word", v |-> 0]

HeaderLine(h) == [hdrs |-> {h}, toks |-> <<WordTok, WordTok, WordTok>>]
Row(toks) == [hdrs |-> {}, toks |-> toks]

BlankLine == Row(<<>>)
\* "0 0 0.04", "1 0 -0.02 x" (a row followed by a remark), "0 0 0 0 0.05"
SinglesRow == Row(<<IntTok(0), IntTok(0), FloatTok(80)>>)
SinglesRowTrailing == Row(<<IntTok(1), IntTok(0), FloatTok(-40), WordTok>>)
DoublesRow == Row(<<IntTok(0), IntTok(0), IntTok(0), IntTok(0), FloatTok(100)>>)

Lines ==
    {HeaderLine(h) : h \in Headers}
        \cup {BlankLine, SinglesRow, SinglesRowTrailing, DoublesRow}

Transcripts == UNION {[1 .. n -> Lines] : n \in 0 .. MaxLines}

\* One alpha electron; zero, one or two beta electrons.
AmpInputs ==
    { [number_orbitals |-> NumberOrbitals, n_alpha_electrons |-> 1,
       n_beta_electrons |-> nb, output_buffer |-> buf] :
         nb \in {0, 1, 2}, buf \in Transcripts }

\* The if / elif chain of the scan: the one index variable a line sets.
header_of(line) ==
    CASE "TIA" \in line.hdrs -> "TIA"
      [] "Tia" \in line.hdrs -> "Tia"
      [] "TIJAB" \in line.hdrs -> "TIJAB"
      [] "Tijab" \in line.hdrs -> "Tijab"
      [] "TIjAb" \in line.hdrs -> "TIjAb"
      [] OTHER -> "none"

\* The value of the index variable of header h after the scan: the position
\* (from 1) of the last line that set it, 0 for None.
\* A scan that keeps the first line containing the header, not the last.
RECURSIVE scan_first(_, _, _, _)
scan_first(buf, h, i, index) ==
    IF i > Len(buf) THEN index
    ELSE scan_first(buf, h, i + 1,
                    IF header_of(buf[i]) = h /\ index = 0 THEN i ELSE index)

RECURSIVE scan(_, _, _, _)
scan(buf, h, i, index) ==
    IF i > Len(buf) THEN index
    ELSE scan(buf, h, i + 1, IF header_of(buf[i]) = h THEN i ELSE index)

header_index(buf, h) == scan(buf, h, 1, 0)

\* Number of columns a section converts: int, int, float or int x 4, float.
Columns(h) == IF h \in {"TIA", "Tia"} THEN 3 ELSE 5

\* The exception raised by converting the first `columns` tokens of ivals in
\* order, "none" if all convert: ivals[c] past the end is an IndexError,
\* int() of a non-integer and float() of a word are ValueErrors.
RECURSIVE convert_error(_, _, _)
convert_error(ivals, columns, c) ==
    IF c > columns THEN "none"
    ELSE IF c > Len(ivals) THEN "IndexError"
    ELSE IF c < columns /\ ivals[c].k # "int" THEN "ValueError"
    ELSE IF c = columns /\ ivals[c].k = "word" THEN "ValueError"
    ELSE convert_error(ivals, columns, c + 1)

\* float(token): an integer literal n is n.0.
float_value(tok) == IF tok.k = "int" THEN 2000 * tok.v ELSE tok.v

entry_of(ivals, columns) ==
    [c \in 1 .. columns |->
        IF c < columns THEN ivals[c].v ELSE float_value(ivals[c])]

\* A reader that skips a row it cannot convert instead of failing.
RECURSIVE read_rows_skipping(_, _, _, _)
read_rows_skipping(buf, pos, columns, amps) ==
    IF pos > Len(buf) \/ buf[pos].toks = <<>>
    THEN [raised |-> "none", amps |-> amps]
    ELSE read_rows_skipping(buf, pos + 1, columns,
             IF convert_error(buf[pos].toks, columns, 1) # "none" THEN amps
             ELSE Append(amps, entry_of(buf[pos].toks, columns)))

\* for line in output_buffer[index + 1:]: the rows from position pos on, up
\* to the first line without tokens or the end of the buffer.
RECURSIVE read_rows(_, _, _, _)
read_rows(buf, pos, columns, amps) ==
    IF pos > Len(buf) \/ buf[pos].toks = <<>>
    THEN [raised |-> "none", amps |-> amps]
    ELSE LET err == convert_error(buf[pos].toks, columns, 1)
         IN  IF err # "none"
             THEN [raised |-> err, amps |-> <<>>]
             ELSE read_rows(buf, pos + 1, columns,
                            Append(amps, entry_of(buf[pos].toks, columns)))

\* A reader for which a header that was not found counts as position 0.
read_section_from_top(buf, h) ==
    read_rows(buf, header_index(buf, h) + 1, Columns(h), <<>>)

\* if (X_index is not None): read the rows after the header.
read_section(buf, h) ==
    IF header_index(buf, h) = 0
    THEN [raised |-> "none", amps |-> <<>>]
    ELSE read_rows(buf, header_index(buf, h) + 1, Columns(h), <<>>)

\* restricted with `or` in place of `and`.
restricted_either(buf) ==
    header_index(buf, "Tia") = 0 \/ header_index(buf, "Tijab") = 0

restricted(buf) ==
    header_index(buf, "Tia") = 0 /\ header_index(buf, "Tijab") = 0

alpha_occupied(i) == 2 * i
\* alpha_unoccupied without the offset by the electron count.
alpha_unoccupied_no_offset(i, n_alpha_electrons) == 2 * i
alpha_unoccupied(i, n_alpha_electrons) == 2 * (i + n_alpha_electrons)
beta_occupied(i) == 2 * i + 1
beta_unoccupied(i, n_beta_electrons) == 2 * (i + n_beta_electrons) + 1

(***************************************************************************)
(* A tensor made by numpy.zeros is kept as the function of its non-zero    *)
(* entries; every index tuple outside its domain holds 0.                  *)
(***************************************************************************)
zeros == [i \in {} |-> 0]
Get(t, idx) == IF idx \in DOMAIN t THEN t[idx] ELSE 0
Put(t, idx, v) ==
    [j \in ((DOMAIN t) \ {idx}) \cup (IF v = 0 THEN {} ELSE {idx}) |->
        IF j = idx THEN v ELSE t[j]]

\* t[idx] = v for each idx of slots, in order; an index that is not below
\* number_orbitals is an IndexError (the indices read are never negative).
RECURSIVE assign(_, _, _, _)
assign(res, slots, v, n) ==
    IF res.raised # "none" \/ slots = <<>> THEN res
    ELSE IF \E c \in DOMAIN Head(slots) : Head(slots)[c] >= n
         THEN [raised |-> "IndexError", t |-> zeros]
         ELSE assign([raised |-> "none", t |-> Put(res.t, Head(slots), v)],
                     Tail(slots), v, n)

\* The slots one entry of section h is assigned to, in the order of the loop
\* body: entry = <<i, a, value>> or <<i, j, a, b, value>>; mirror is the
\* value of `restricted`.
slots_of(h, e, na, nb, mirror) ==
    LET ao(i) == alpha_occupied(i)
        au(a) == alpha_unoccupied(a, na)
        bo(i) == beta_occupied(i)
        bu(a) == beta_unoccupied(a, nb)
    IN  CASE h = "TIA" ->
               <<<<au(e[2]), ao(e[1])>>>>
                   \o (IF mirror THEN <<<<bu(e[2]), bo(e[1])>>>> ELSE <<>>)
          [] h = "Tia" ->
               <<<<bu(e[2]), bo(e[1])>>>>
          [] h = "TIJAB" ->
               <<<<au(e[3]), ao(e[1]), au(e[4]), ao(e[2])>>>>
                   \o (IF mirror
                       THEN <<<<bu(e[3]), bo(e[1]), bu(e[4]), bo(e[2])>>>>
                       ELSE <<>>)
          [] h = "Tijab" ->
               <<<<bu(e[3]), bo(e[1]), bu(e[4]), bo(e[2])>>>>
          [] h = "TIjAb" ->
               <<<<au(e[3]), ao(e[1]), bu(e[4]), bo(e[2])>>>>
                   \o (IF mirror
                       THEN <<<<bu(e[3]), bo(e[1]), au(e[4]), ao(e[2])>>>>
                       ELSE <<>>)

\* The value stored: value for singles, value / 2. for doubles.
stored_value(h, e) == IF Columns(h) = 3 THEN e[3] ELSE e[5] \div 2

\* for entry in amps: the assignments of the loop body of section h.
RECURSIVE store(_, _, _, _, _)
store(res, h, amps, in, mirror) ==
    IF res.raised # "none" \/ amps = <<>> THEN res
    ELSE store(assign(res,
                      slots_of(h, Head(amps), in.n_alpha_electrons,
                               in.n_beta_electrons, mirror),
                      stored_value(h, Head(amps)), in.number_orbitals),
               h, Tail(amps), in, mirror)

\* in = [number_orbitals, n_alpha_electrons, n_beta_electrons, output_buffer].
parse_psi4_ccsd_amplitudes(in) ==
    LET output_buffer == in.output_buffer
        T1IA == read_section(output_buffer, "TIA")
        T1ia == read_section(output_buffer, "Tia")
        T2IJAB == read_section(output_buffer, "TIJAB")
        T2ijab == read_section(output_buffer, "Tijab")
        T2IjAb == read_section(output_buffer, "TIjAb")
        reads == <<T1IA, T1ia, T2IJAB, T2ijab, T2IjAb>>
        mirror == restricted(output_buffer)
        start == [raised |-> "none", t |-> zeros]
        singles == store(store(start, "TIA", T1IA.amps, in, mirror),
                         "Tia", T1ia.amps, in, mirror)
        doubles == store(store(store(start, "TIJAB", T2IJAB.amps, in, mirror),
                               "Tijab", T2ijab.amps, in, mirror),
                         "TIjAb", T2IjAb.amps, in, mirror)
        failed == {k \in 1 .. 5 : reads[k].raised # "none"}
        raised == IF failed # {}
                  THEN reads[CHOOSE k \in failed : \A m \in failed : k <= m].raised
                  ELSE IF singles.raised # "none" THEN singles.raised
                  ELSE doubles.raised
    IN  IF raised # "none"
        THEN [raised |-> raised, single_amplitudes |-> "none",
              double_amplitudes |-> "none"]
        ELSE [raised |-> "none", single_amplitudes |-> singles.t,
              double_amplitudes |-> doubles.t]

InitAmp ==
    /\ amp_pc = "start"
    /\ amp_in \in AmpInputs
    /\ amp_out = <<>>
    /\ RunIdle /\ RdmIdle /\ OthersIdle

parse ==
    /\ amp_pc = "start"
    /\ amp_out' = parse_psi4_ccsd_amplitudes(amp_in)
    /\ amp_pc' = "done"
    /\ UNCHANGED <<amp_in, runVars, rdmVars, tplVars, geoVars, extVars>>

NextAmp == parse

SpecAmp == InitAmp /\ [][NextAmp]_vars

(***************************************************************************)
(* Properties of parse_psi4_ccsd_amplitudes (checked under SpecAmp).       *)
(* The transcript is described here directly, not through the reader.      *)
(***************************************************************************)
Buf == amp_in.output_buffer
AmpDone == amp_pc = "done"
AmpOk == amp_pc = "done" /\ amp_out.raised = "none"
SingleAt(idx) == Get(amp_out.single_amplitudes, idx)
DoubleAt(idx) == Get(amp_out.double_amplitudes, idx)
SpinOrb == 0 .. (amp_in.number_orbitals - 1)
\* The spatial indices that can map to a spin orbital below number_orbitals.
Spatial == 0 .. ((amp_in.number_orbitals - 1) \div 2)
InRange(idx) == \A c \in DOMAIN idx : idx[c] \in SpinOrb
Parity(idx) == [c \in DOMAIN idx |-> idx[c] % 2]

\* The transcript contains the header.
Present(h) == \E k \in DOMAIN Buf : h \in Buf[k].hdrs
LastHeader(h) == CHOOSE k \in DOMAIN Buf :
                     h \in Buf[k].hdrs /\ \A m \in DOMAIN Buf : m > k => h \notin Buf[m].hdrs
\* The rows read for section h: after its header, before the next line
\* without tokens.
ReadRows(h) ==
    IF ~Present(h) THEN {}
    ELSE {k \in DOMAIN Buf :
             /\ k > LastHeader(h)
             /\ \A m \in (LastHeader(h) + 1) .. k : Buf[m].toks # <<>>}
NeitherBetaHeader == ~Present("Tia") /\ ~Present("Tijab")

\* The amplitude the rows of section h list for the orbital indices key (the
\* last such row counts), 0 if none does.
Listed(h, key) ==
    LET ks == {k \in ReadRows(h) :
                  /\ Len(Buf[k].toks) >= Columns(h)
                  /\ \A c \in 1 .. (Columns(h) - 1) : Buf[k].toks[c].v = key[c]}
    IN  IF ks = {} THEN 0
        ELSE float_value(Buf[CHOOSE k \in ks : \A m \in ks : m <= k].toks[Columns(h)])

\* The transcript of the indexing example: the only header is "Largest TIJAB
\* Amplitudes:", followed by the row "0 0 0 0 0.05" and a blank line.
IndexingExample ==
    /\ amp_in.n_alpha_electrons = 1
    /\ \E k \in DOMAIN Buf :
          /\ k + 2 <= Len(Buf)
          /\ Buf[k] = HeaderLine("TIJAB")
          /\ Buf[k + 1] = DoublesRow
          /\ Buf[k + 2] = BlankLine
          /\ \A m \in DOMAIN Buf : m # k => Buf[m].hdrs = {}

MirroredExampleSlot ==
    <<2 * amp_in.n_beta_electrons + 1, 1, 2 * amp_in.n_beta_electrons + 1, 1>>

\* C7 as stated: in the indexing example double_amplitudes[2,0,2,0] is half
\* the listed value and every other entry of both tensors is zero.
C7_OnlyAlphaEntry ==
    (AmpOk /\ IndexingExample) =>
        /\ DoubleAt(<<2, 0, 2, 0>>) = 50
        /\ \A idx \in DOMAIN amp_out.double_amplitudes : idx = <<2, 0, 2, 0>>
        /\ DOMAIN amp_out.single_amplitudes = {}

\* C7 amended: in the indexing example double_amplitudes[2,0,2,0] is half the
\* listed value, and so is its restricted mirror at (beta_unoccupied(0),
\* beta_occupied(0), beta_unoccupied(0), beta_occupied(0)); every other entry
\* of double_amplitudes and every entry of single_amplitudes is zero.  The
\* parse fails only when the mirror slot lies outside the tensor.
C7_AlphaEntryAndMirror ==
    (AmpDone /\ IndexingExample) =>
        /\ (amp_out.raised # "none") = ~InRange(MirroredExampleSlot)
        /\ amp_out.raised = "none" =>
              /\ DoubleAt(<<2, 0, 2, 0>>) = 50
              /\ DoubleAt(MirroredExampleSlot) = 50
              /\ \A idx \in DOMAIN amp_out.double_amplitudes :
                    idx \in {<<2, 0, 2, 0>>, MirroredExampleSlot}
              /\ DOMAIN amp_out.single_amplitudes = {}

\* C7 witness: the indexing example parsed with no beta electrons: the
\* listed amplitude, halved, at (2,0,2,0) and at its mirror (1,1,1,1).
C7_Witness ==
    /\ AmpOk /\ IndexingExample
    /\ amp_in.n_beta_electrons = 0
    /\ DoubleAt(<<2, 0, 2, 0>>) = 50
    /\ DoubleAt(<<1, 1, 1, 1>>) = 50

\* C8: without the "Tia" and "Tijab" headers every beta slot equals the
\* corresponding alpha slot (singles, same-spin doubles, and the mixed
\* doubles with the spins exchanged); with exactly one of the two headers
\* absent nothing is mirrored.
C8_RestrictedMirroring ==
    AmpOk =>
      LET na == amp_in.n_alpha_electrons
          nb == amp_in.n_beta_electrons
          ao(i) == alpha_occupied(i)
          au(a) == alpha_unoccupied(a, na)
          bo(i) == beta_occupied(i)
          bu(a) == beta_unoccupied(a, nb)
      IN  /\ NeitherBetaHeader =>
                /\ \A i \in Spatial, a \in Spatial :
                      InRange(<<bu(a), bo(i)>>) /\ InRange(<<au(a), ao(i)>>) =>
                          SingleAt(<<bu(a), bo(i)>>) = SingleAt(<<au(a), ao(i)>>)
                /\ \A i \in Spatial, j \in Spatial, a \in Spatial, b \in Spatial :
                      /\ ( InRange(<<bu(a), bo(i), bu(b), bo(j)>>)
                           /\ InRange(<<au(a), ao(i), au(b), ao(j)>>) ) =>
                             DoubleAt(<<bu(a), bo(i), bu(b), bo(j)>>)
                                 = DoubleAt(<<au(a), ao(i), au(b), ao(j)>>)
                      /\ ( InRange(<<bu(a), bo(i), au(b), ao(j)>>)
                           /\ InRange(<<au(a), ao(i), bu(b), bo(j)>>) ) =>
                             DoubleAt(<<bu(a), bo(i), au(b), ao(j)>>)
                                 = DoubleAt(<<au(a), ao(i), bu(b), bo(j)>>)
          /\ (Present("Tia") # Present("Tijab")) =>
                /\ \A idx \in DOMAIN amp_out.single_amplitudes :
                      Parity(idx) = <<1, 1>> => Present("Tia")
                /\ \A idx \in DOMAIN amp_out.double_amplitudes :
                      /\ Parity(idx) = <<1, 1, 1, 1>> => Present("Tijab")
                      /\ Parity(idx) # <<1, 1, 0, 0>>

\* C8 witness: a restricted transcript whose alpha single is found again in
\* the beta slot.
C8_Witness ==
    /\ AmpOk /\ NeitherBetaHeader
    /\ SingleAt(<<2, 0>>) = 80
    /\ SingleAt(<<2 * amp_in.n_beta_electrons + 1, 1>>) = 80
    /\ amp_in.n_beta_electrons # amp_in.n_alpha_electrons

\* The sections present are parsed normally: each section's own slots hold
\* what its rows list (doubles halved).
PresentSectionsParsed ==
    LET na == amp_in.n_alpha_electrons
        nb == amp_in.n_beta_electrons
        ao(i) == alpha_occupied(i)
        au(a) == alpha_unoccupied(a, na)
        bo(i) == beta_occupied(i)
        bu(a) == beta_unoccupied(a, nb)
    IN  /\ \A i \in Spatial, a \in Spatial :
              /\ (Present("TIA") /\ InRange(<<au(a), ao(i)>>)) =>
                    SingleAt(<<au(a), ao(i)>>) = Listed("TIA", <<i, a>>)
              /\ (Present("Tia") /\ InRange(<<bu(a), bo(i)>>)) =>
                    SingleAt(<<bu(a), bo(i)>>) = Listed("Tia", <<i, a>>)
        /\ \A i \in Spatial, j \in Spatial, a \in Spatial, b \in Spatial :
              /\ (Present("TIJAB") /\ InRange(<<au(a), ao(i), au(b), ao(j)>>)) =>
                    DoubleAt(<<au(a), ao(i), au(b), ao(j)>>)
                        = Listed("TIJAB", <<i, j, a, b>>) \div 2
              /\ (Present("Tijab") /\ InRange(<<bu(a), bo(i), bu(b), bo(j)>>)) =>
                    DoubleAt(<<bu(a), bo(i), bu(b), bo(j)>>)
                        = Listed("Tijab", <<i, j, a, b>>) \div 2
              /\ (Present("TIjAb") /\ InRange(<<au(a), ao(i), bu(b), bo(j)>>)) =>
                    DoubleAt(<<au(a), ao(i), bu(b), bo(j)>>)
                        = Listed("TIjAb", <<i, j, a, b>>) \div 2

\* C9 as stated: a missing header is no error, the slots a missing section
\* would populate are zero, and the sections present are parsed normally.
C9_MissingSectionsZero ==
    /\ (AmpDone /\ \A h \in Headers : ~Present(h)) => amp_out.raised = "none"
    /\ AmpOk =>
          /\ \A idx \in DOMAIN amp_out.single_amplitudes :
                /\ Parity(idx) = <<0, 0>> => Present("TIA")
                /\ Parity(idx) = <<1, 1>> => Present("Tia")
          /\ \A idx \in DOMAIN amp_out.double_amplitudes :
                /\ Parity(idx) = <<0, 0, 0, 0>> => Present("TIJAB")
                /\ Parity(idx) = <<1, 1, 1, 1>> => Present("Tijab")
                /\ Parity(idx) = <<0, 0, 1, 1>> => Present("TIjAb")
          /\ PresentSectionsParsed

\* C9 amended: a missing header is no error; the slots a missing section
\* would populate are zero, except that with both the "Tia" and the "Tijab"
\* header missing the beta slots hold the mirrored amplitudes of the alpha
\* sections that are present; slots that no section populates are zero; and
\* the sections present are parsed normally.
C9_MissingSectionsZeroUnlessMirrored ==
    /\ (AmpDone /\ \A h \in Headers : ~Present(h)) =>
          /\ amp_out.raised = "none"
          /\ DOMAIN amp_out.single_amplitudes = {}
          /\ DOMAIN amp_out.double_amplitudes = {}
    /\ AmpOk =>
          /\ \A idx \in DOMAIN amp_out.single_amplitudes :
                CASE Parity(idx) = <<0, 0>> -> Present("TIA")
                  [] Parity(idx) = <<1, 1>> ->
                        Present("Tia") \/ (NeitherBetaHeader /\ Present("TIA"))
                  [] OTHER -> FALSE
          /\ \A idx \in DOMAIN amp_out.double_amplitudes :
                CASE Parity(idx) = <<0, 0, 0, 0>> -> Present("TIJAB")
                  [] Parity(idx) = <<1, 1, 1, 1>> ->
                        Present("Tijab") \/ (NeitherBetaHeader /\ Present("TIJAB"))
                  [] Parity(idx) = <<0, 0, 1, 1>> -> Present("TIjAb")
                  [] Parity(idx) = <<1, 1, 0, 0>> ->
                        NeitherBetaHeader /\ Present("TIjAb")
                  [] OTHER -> FALSE
          /\ PresentSectionsParsed

\* C9 witness: the beta singles section is present and parsed, every other
\* section is missing and its slots are zero.
C9_Witness ==
    /\ AmpOk
    /\ Present("Tia") /\ \A h \in Headers \ {"Tia"} : ~Present(h)
    /\ DOMAIN amp_out.single_amplitudes # {}
    /\ \A idx \in DOMAIN amp_out.single_amplitudes : Parity(idx) = <<1, 1>>
    /\ DOMAIN amp_out.double_amplitudes = {}

\* Row k, read for section h, cannot be stored: a leading token missing or
\* not convertible, or a spin-orbital index outside the tensors.
Unconvertible(h, k) ==
    LET ivals == Buf[k].toks
    IN  \/ Len(ivals) < Columns(h)
        \/ \E c \in 1 .. (Columns(h) - 1) : ivals[c].k # "int"
        \/ ivals[Columns(h)].k = "word"
OutsideTensor(h, k) ==
    LET ivals == Buf[k].toks
        occ == IF Columns(h) = 3 THEN {ivals[1].v} ELSE {ivals[1].v, ivals[2].v}
        virt == IF Columns(h) = 3 THEN {ivals[2].v} ELSE {ivals[3].v, ivals[4].v}
        alpha == h \in {"TIA", "TIJAB", "TIjAb"}
        beta == h \in {"Tia", "Tijab", "TIjAb"} \/ NeitherBetaHeader
    IN  \/ alpha /\ \E i \in occ : alpha_occupied(i) \notin SpinOrb
        \/ alpha /\ \E a \in virt :
               alpha_unoccupied(a, amp_in.n_alpha_electrons) \notin SpinOrb
        \/ beta /\ \E i \in occ : beta_occupied(i) \notin SpinOrb
        \/ beta /\ \E a \in virt :
               beta_unoccupied(a, amp_in.n_beta_electrons) \notin SpinOrb

\* C10 as stated: a row read for a present section that contains a
\* non-numeric token makes the parse fail.
C10_AnyWordTokenFatal ==
    ( /\ AmpDone
      /\ \E h \in Headers : \E k \in ReadRows(h) :
            \E c \in DOMAIN Buf[k].toks : Buf[k].toks[c].k = "word" )
    => amp_out.raised # "none"

\* C10 amended: a row read for a present section with a non-numeric token
\* among the tokens the section converts (the first three of a singles
\* section, the first five of a doubles section) makes the parse fail, and
\* no tensors are returned; tokens after these are not looked at.  Rows
\* outside the sections never cause a failure: a failed parse has a row read
\* for a present section that cannot be converted or stored.
C10_ConvertedWordTokenFatal ==
    AmpDone =>
        /\ ( \E h \in Headers : \E k \in ReadRows(h) :
                \E c \in 1 .. Columns(h) :
                    c <= Len(Buf[k].toks) /\ Buf[k].toks[c].k = "word" )
           => amp_out.raised # "none"
        /\ amp_out.raised # "none" =>
              /\ amp_out.single_amplitudes = "none"
              /\ amp_out.double_amplitudes = "none"
              /\ \E h \in Headers : \E k \in ReadRows(h) :
                    Unconvertible(h, k) \/ OutsideTensor(h, k)

\* C10 witness: the row after a header is the header of the next section,
\* and the parse has failed with a ValueError.
C10_Witness ==
    /\ AmpDone
    /\ Len(Buf) >= 2
    /\ Buf[1] = HeaderLine("TIA") /\ Buf[2] = HeaderLine("TIJAB")
    /\ amp_out.raised = "ValueError"

\* The orbital indices a row of section h can list within the tensors.
RowKeys(h) ==
    IF Columns(h) = 3 THEN Spatial \X Spatial
    ELSE Spatial \X Spatial \X Spatial \X Spatial
\* The slot a row of section h with orbital indices key is stored at, and the
\* amplitude the result holds there.
OwnSlot(h, key) ==
    slots_of(h, key, amp_in.n_alpha_electrons, amp_in.n_beta_electrons, FALSE)[1]
OwnAt(h, key) ==
    IF Columns(h) = 3 THEN SingleAt(OwnSlot(h, key)) ELSE DoubleAt(OwnSlot(h, key))
\* The lines of the transcript that list orbital indices key in the columns
\* of section h.
RowsListing(h, key) ==
    {k \in DOMAIN Buf :
        /\ Len(Buf[k].toks) >= Columns(h)
        /\ \A c \in 1 .. (Columns(h) - 1) :
              Buf[k].toks[c].k = "int" /\ Buf[k].toks[c].v = key[c]}
Occurrences(h) == {k \in DOMAIN Buf : h \in Buf[k].hdrs}

\* C16: when a header occurs more than once only the rows after its last
\* occurrence are used (rows after an earlier occurrence contribute nothing),
\* and when rows of one section list the same indices the later row's value
\* is the one stored.
C16_LastOccurrenceLastRow ==
    AmpOk =>
        \A h \in Headers :
            Present(h) =>
                \A key \in RowKeys(h) :
                    InRange(OwnSlot(h, key)) =>
                        LET used == RowsListing(h, key) \cap ReadRows(h)
                            last == CHOOSE k \in used : \A m \in used : m <= k
                        IN  IF used = {} THEN OwnAt(h, key) = 0
                            ELSE OwnAt(h, key)
                                     = stored_value(h, entry_of(Buf[last].toks, Columns(h)))

\* C16 witness: a header occurs twice, a row with a non-zero amplitude follows
\* its first occurrence, and the slot of that row is zero in the result.
C16_Witness ==
    /\ AmpOk
    /\ \E h \in Headers :
          /\ Cardinality(Occurrences(h)) = 2
          /\ \E key \in RowKeys(h) :
                /\ InRange(OwnSlot(h, key))
                /\ \E k \in RowsListing(h, key) :
                      /\ k < LastHeader(h)
                      /\ k - 1 \in Occurrences(h)
                      /\ float_value(Buf[k].toks[Columns(h)]) # 0
                /\ OwnAt(h, key) = 0

\* Two rows of one section list the same indices with different amplitudes,
\* and the later one is stored.
LaterRowStored ==
    /\ AmpOk
    /\ \E h \in Headers :
          \E key \in RowKeys(h) :
              LET used == RowsListing(h, key) \cap ReadRows(h)
              IN  /\ Cardinality(used) = 2
                  /\ \E k \in used, m \in used :
                        /\ k < m
                        /\ float_value(Buf[k].toks[Columns(h)]) = 0
                        /\ float_value(Buf[m].toks[Columns(h)]) # 0
                        /\ OwnAt(h, key) = float_value(Buf[m].toks[Columns(h)])

(***************************************************************************)
(* generate_psi4_input.  Text is a sequence of units: "&", the name of a   *)
(* placeholder (the text after its "&"), "x" (any other text), "nl" (a     *)
(* line break), "\\n" (a backslash followed by the letter n), "True",       *)
(* "False", "0", "1".  No placeholder is a prefix of another, so a match   *)
(* of the pattern '&name' is an "&" directly followed by the name.  The    *)
(* lines of the template are substituted one by one and joined: as no      *)
(* pattern contains a line break this is the substitution of the whole     *)
(* text.                                                                   *)
(***************************************************************************)
\* The patterns in the order of the re.sub passes.
Placeholders ==
    <<"THIS_DIRECTORY", "geometry", "basis", "charge", "multiplicity",
      "description", "mol_filename", "geo_string", "run_scf", "run_mp2",
      "run_cisd", "run_ccsd", "run_fci", "tolerate_error",
      "not_tolerate_error", "verbose", "memory">>
PlaceholderNames == {Placeholders[n] : n \in DOMAIN Placeholders}

\* str() of a boolean argument.
str_bool(b) == IF b THEN <<"True">> ELSE <<"False">>

\* The replacement string of each pass.  molecule.basis and
\* molecule.description are the inputs that vary; the other arguments are
\* fixed: charge 0, multiplicity 1, all run_ flags and verbose False,
\* tolerate_error False, memory "x" MB.
replacement(in, name) ==
    CASE name = "basis" -> in.basis
      [] name = "description" -> in.description
      [] name = "charge" -> <<"0">>
      [] name = "multiplicity" -> <<"1">>
      [] name \in {"run_scf", "run_mp2", "run_cisd", "run_ccsd", "run_fci",
                   "verbose", "tolerate_error"} -> str_bool(FALSE)
      [] name = "not_tolerate_error" -> str_bool(~FALSE)
      [] OTHER -> <<"x">>

\* What re.sub inserts for a replacement string: the escape \n of the
\* replacement becomes a line break, other text is inserted as it is.
RECURSIVE expand_repl(_)
expand_repl(repl) ==
    IF repl = <<>> THEN <<>>
    ELSE <<IF Head(repl) = "\\n" THEN "nl" ELSE Head(repl)>> \o expand_repl(Tail(repl))

\* A substitution that replaces the first match only (count = 1).
RECURSIVE re_sub_first(_, _, _)
re_sub_first(name, repl, text) ==
    IF text = <<>> THEN <<>>
    ELSE IF Len(text) >= 2 /\ text[1] = "&" /\ text[2] = name
         THEN expand_repl(repl) \o SubSeq(text, 3, Len(text))
         ELSE <<Head(text)>> \o re_sub_first(name, repl, Tail(text))

\* re.sub('&' + name, repl, text): every non-overlapping match, left to
\* right, replaced by the expanded replacement; the result is not rescanned.
RECURSIVE re_sub(_, _, _)
re_sub(name, repl, text) ==
    IF text = <<>> THEN <<>>
    ELSE IF Len(text) >= 2 /\ text[1] = "&" /\ text[2] = name
         THEN expand_repl(repl) \o re_sub(name, repl, SubSeq(text, 3, Len(text)))
         ELSE <<Head(text)>> \o re_sub(name, repl, Tail(text))

\* The passes n, n + 1, ... over the content produced by the passes before.
RECURSIVE passes(_, _, _)
passes(in, input_content, n) ==
    IF n > Len(Placeholders) THEN input_content
    ELSE passes(in, re_sub(Placeholders[n], replacement(in, Placeholders[n]),
                            input_content), n + 1)

\* The text written to the input file.
generate_psi4_input(in) == passes(in, in.template, 1)

\* Templates and values.
TemplateUnits == {"&", "x", "basis", "description"}
Templates == UNION {[1 .. n -> TemplateUnits] : n \in 0 .. MaxTemplateLen}
ValueTexts ==
    {<<>>, <<"x">>, <<"basis">>, <<"&", "basis">>, <<"&", "description">>, <<"\\n">>}
TplInputs == [template : Templates, basis : ValueTexts, description : ValueTexts]

InitTpl ==
    /\ tpl_pc = "start"
    /\ tpl_in \in TplInputs
    /\ tpl_out = <<>>
    /\ RunIdle /\ RdmIdle /\ AmpIdle /\ GeoIdle /\ ExtIdle

generate ==
    /\ tpl_pc = "start"
    /\ tpl_out' = generate_psi4_input(tpl_in)
    /\ tpl_pc' = "done"
    /\ UNCHANGED <<tpl_in, runVars, rdmVars, ampVars, geoVars, extVars>>

NextTpl == generate

SpecTpl == InitTpl /\ [][NextTpl]_vars

\* The text contains a placeholder token.
HasToken(text) ==
    \E i \in 1 .. (Len(text) - 1) : text[i] = "&" /\ text[i + 1] \in PlaceholderNames

\* The template with each placeholder occurrence replaced, at its position,
\* by exactly the value of that placeholder, everything else unchanged.
RECURSIVE Rendered(_, _)
Rendered(in, text) ==
    IF text = <<>> THEN <<>>
    ELSE IF Len(text) >= 2 /\ text[1] = "&" /\ text[2] \in PlaceholderNames
         THEN replacement(in, text[2]) \o Rendered(in, SubSeq(text, 3, Len(text)))
         ELSE <<Head(text)>> \o Rendered(in, Tail(text))

\* C11 as stated: for any template and any values the rendered text holds no
\* placeholder token and is the template with each placeholder occurrence
\* replaced by exactly its value.
C11_RoundTripAnyValues ==
    tpl_pc = "done" =>
        /\ ~HasToken(tpl_out)
        /\ tpl_out = Rendered(tpl_in, tpl_in.template)

\* Every "&" of the text begins a placeholder token.
EveryAmpersandBeginsToken(text) ==
    \A i \in DOMAIN text :
        text[i] = "&" => i < Len(text) /\ text[i + 1] \in PlaceholderNames
PlainValue(v) == \A i \in DOMAIN v : v[i] \notin {"&", "\\n"}

\* C11 amended: for any template in which every "&" begins a placeholder
\* token, and any values that contain neither "&" nor a backslash, the
\* rendered text holds no placeholder token and is the template with each
\* placeholder occurrence replaced by exactly its value.
C11_RoundTripPlainValues ==
    (/\ tpl_pc = "done"
     /\ EveryAmpersandBeginsToken(tpl_in.template)
     /\ PlainValue(tpl_in.basis) /\ PlainValue(tpl_in.description)) =>
        /\ ~HasToken(tpl_out)
        /\ tpl_out = Rendered(tpl_in, tpl_in.template)

\* C11 witness: a template with two occurrences of one placeholder, rendered
\* with plain values.
C11_Witness ==
    /\ tpl_pc = "done"
    /\ tpl_in.template = <<"&", "basis", "&", "basis">>
    /\ tpl_in.basis = <<"basis">> /\ tpl_in.description = <<"x">>
    /\ tpl_out # tpl_in.template
    /\ tpl_out = Rendered(tpl_in, tpl_in.template)

(***************************************************************************)
(* parse_sdf_geometry and parse_psi4_geometry.  geom is the list of lines  *)
(* geom.split('\n') yields (never empty); a line is the list of tokens     *)
(* line.split() yields; a token is a number (float() converts it) or a     *)
(* word (float() raises ValueError).                                       *)
(***************************************************************************)
Num(v) == [k |-> "num", v |-> v]
Word(w) == [k |-> "word", v |-> w]

\* x.lower().capitalize() of a token.
lower_capitalize(tok) ==
    CASE tok.k = "num" -> tok.v
      [] tok.v \in {"h", "H"} -> "H"
      [] tok.v \in {"he", "HE", "He"} -> "He"
      [] OTHER -> tok.v

\* The first 4 tokens of a line: vec[i].split()[:4].
first4(line) == SubSeq(line, 1, IF Len(line) < 4 THEN Len(line) ELSE 4)

\* tuple([float(x) for x in toks]): ValueError if a token is no number.
floats(toks) ==
    IF \E c \in DOMAIN toks : toks[c].k # "num"
    THEN [raised |-> "ValueError", tup |-> <<>>]
    ELSE [raised |-> "none", tup |-> [c \in DOMAIN toks |-> toks[c].v]]

\* A slice that drops one line instead of two.
vec_skip_one(geom, n_atoms) ==
    SubSeq(geom, 2, IF 1 + n_atoms < Len(geom) THEN 1 + n_atoms ELSE Len(geom))

\* geom.split('\n')[2:2 + n_atoms]: a slice never raises, it is cut at the
\* end of the list.
vec(geom, n_atoms) ==
    SubSeq(geom, 3, IF 2 + n_atoms < Len(geom) THEN 2 + n_atoms ELSE Len(geom))

\* The loop of parse_sdf_geometry from line i of vec on: label first.
RECURSIVE sdf_loop(_, _, _)
sdf_loop(v, i, opf_geom) ==
    IF i > Len(v) THEN [raised |-> "none", opf_geom |-> opf_geom]
    ELSE LET x == first4(v[i])
             f == floats(IF x = <<>> THEN <<>> ELSE Tail(x))
         IN  IF f.raised # "none" THEN [raised |-> "ValueError", opf_geom |-> "none"]
             ELSE IF x = <<>> THEN [raised |-> "IndexError", opf_geom |-> "none"]
             ELSE sdf_loop(v, i + 1,
                           Append(opf_geom, [atom |-> lower_capitalize(x[1]), tup |-> f.tup]))

parse_sdf_geometry(geom, n_atoms) == sdf_loop(vec(geom, n_atoms), 1, <<>>)

\* The loop of parse_psi4_geometry from line i of vec on: label fourth.
RECURSIVE psi4_loop(_, _, _)
psi4_loop(v, i, opf_geom) ==
    IF i > Len(v) THEN [raised |-> "none", opf_geom |-> opf_geom]
    ELSE LET x == first4(v[i])
             f == floats(SubSeq(x, 1, IF Len(x) < 3 THEN Len(x) ELSE 3))
         IN  IF f.raised # "none" THEN [raised |-> "ValueError", opf_geom |-> "none"]
             ELSE IF Len(x) < 4 THEN [raised |-> "IndexError", opf_geom |-> "none"]
             ELSE psi4_loop(v, i + 1,
                            Append(opf_geom, [atom |-> lower_capitalize(x[4]), tup |-> f.tup]))

parse_psi4_geometry(geom, n_atoms) == psi4_loop(vec(geom, n_atoms), 1, <<>>)

\* Lines: blank, two lines with the label first, two with the label fourth.
GeoBlank == <<>>
LabelFirstA == <<Word("h"), Num(0), Num(0), Num(0)>>
LabelFirstB == <<Word("HE"), Num(1), Num(2), Num(3), Num(4)>>
LabelFourthA == <<Num(0), Num(0), Num(0), Word("h")>>
LabelFourthB == <<Num(1), Num(2), Num(3), Word("HE"), Num(4)>>
GeoLines == {GeoBlank, LabelFirstA, LabelFirstB, LabelFourthA, LabelFourthB}
Geoms == UNION {[1 .. n -> GeoLines] : n \in 1 .. MaxGeomLines}
GeoInputs == [geom : Geoms, n_atoms : 0 .. MaxAtoms]

InitGeo ==
    /\ geo_pc = "start"
    /\ geo_in \in GeoInputs
    /\ geo_out = <<>>
    /\ RunIdle /\ RdmIdle /\ AmpIdle /\ TplIdle /\ ExtIdle

call_parse_sdf_geometry ==
    /\ geo_pc = "start"
    /\ LET r == parse_sdf_geometry(geo_in.geom, geo_in.n_atoms)
       IN  geo_out' = [parser |-> "sdf", raised |-> r.raised, opf_geom |-> r.opf_geom]
    /\ geo_pc' = "done"
    /\ UNCHANGED <<geo_in, runVars, rdmVars, ampVars, tplVars, extVars>>

call_parse_psi4_geometry ==
    /\ geo_pc = "start"
    /\ LET r == parse_psi4_geometry(geo_in.geom, geo_in.n_atoms)
       IN  geo_out' = [parser |-> "psi4", raised |-> r.raised, opf_geom |-> r.opf_geom]
    /\ geo_pc' = "done"
    /\ UNCHANGED <<geo_in, runVars, rdmVars, ampVars, tplVars, extVars>>

NextGeo == call_parse_sdf_geometry \/ call_parse_psi4_geometry

SpecGeo == InitGeo /\ [][NextGeo]_vars

\* The lines after the two header lines, and how many a call is to read.
LinesAfterHeaders == IF Len(geo_in.geom) > 2 THEN Len(geo_in.geom) - 2 ELSE 0
GeoOk == geo_pc = "done" /\ geo_out.raised = "none"
\* The entry a parser makes of a line: (label, coordinates).
LabelAt(parser) == IF parser = "sdf" THEN 1 ELSE 4
EntryOfLine(parser, line) ==
    LET coords == IF parser = "sdf" THEN 2 .. 4 ELSE 1 .. 3
        present == {c \in coords : c <= Len(line)}
        first == IF parser = "sdf" THEN 1 ELSE 0
    IN  [atom |-> lower_capitalize(line[LabelAt(parser)]),
         tup |-> [c \in 1 .. Cardinality(present) |-> line[first + c].v]]
\* The line has no token at the position of the label.
TooShort(parser, line) == Len(line) < LabelAt(parser)

\* C13 as stated: the parsers skip the first two lines; a normal return
\* yields exactly n_atoms entries, one per following line in order; with
\* fewer than n_atoms lines after the two header lines the call fails with an
\* IndexError.
C13_ExactlyNAtomsOrIndexError ==
    geo_pc = "done" =>
        /\ geo_out.raised = "none" =>
              /\ Len(geo_out.opf_geom) = geo_in.n_atoms
              /\ \A k \in 1 .. geo_in.n_atoms :
                    geo_out.opf_geom[k] = EntryOfLine(geo_out.parser, geo_in.geom[k + 2])
        /\ LinesAfterHeaders < geo_in.n_atoms => geo_out.raised = "IndexError"

\* C13 amended: the parsers skip the first two lines; a normal return yields
\* one entry per following line in order, n_atoms of them or, when fewer
\* than n_atoms lines follow the two header lines, as many as follow (a
\* shorter list, no error); an IndexError comes only from a line read that
\* has no token at the position of the label.
C13_AtMostNAtomsNoIndexError ==
    geo_pc = "done" =>
        LET m == IF LinesAfterHeaders < geo_in.n_atoms
                 THEN LinesAfterHeaders ELSE geo_in.n_atoms
        IN  /\ geo_out.raised = "none" =>
                  /\ Len(geo_out.opf_geom) = m
                  /\ \A k \in 1 .. m :
                        geo_out.opf_geom[k]
                            = EntryOfLine(geo_out.parser, geo_in.geom[k + 2])
            /\ geo_out.raised = "IndexError" =>
                  \E k \in 1 .. m : TooShort(geo_out.parser, geo_in.geom[k + 2])
            /\ (\A k \in 1 .. m :
                    geo_in.geom[k + 2] \in
                        (IF geo_out.parser = "sdf" THEN {LabelFirstA, LabelFirstB}
                         ELSE {LabelFourthA, LabelFourthB})) =>
                  geo_out.raised = "none"

\* C13 witness: two atoms asked for, one line after the two header lines: a
\* list of one entry is returned.
C13_Witness ==
    /\ GeoOk
    /\ geo_in.n_atoms = 2
    /\ Len(geo_in.geom) = 3
    /\ Len(geo_out.opf_geom) = 1

(***************************************************************************)
(* extract.  PubChemPy and psi4 are outside the repository: what they      *)
(* answer for the name is the input.  get_compounds returns a list, empty  *)
(* when no compound matches, and [0] of the empty list raises IndexError.  *)
(***************************************************************************)
\* The text handed to a parser: two leading lines and one more line.
ExtGeoms == {<<GeoBlank, GeoBlank, l>> : l \in GeoLines}
ExtInputs ==
    [found3d : BOOLEAN,        \* get_compounds(name_, 'name', record_type='3d') # []
     found2d : BOOLEAN,        \* get_compounds(name_, 'name', record_type='2d') # []
     n_atoms : 0 .. MaxAtoms,  \* len(name.atoms)
     psi4_string : ExtGeoms,   \* mlc.create_psi4_string_from_molecule()
     sdf : ExtGeoms]           \* pcp.get_sdf(name.cid)

InitExt ==
    /\ ext_pc = "start"
    /\ ext_in \in ExtInputs
    /\ ext_out = <<>>
    /\ ext_log = <<>>
    /\ RunIdle /\ RdmIdle /\ AmpIdle /\ TplIdle /\ GeoIdle

\* The outer try block and its except IndexError clause.
lookup3d ==
    /\ ext_pc = "start"
    /\ ext_log' = Append(ext_log, "3d")
    /\ IF ~ext_in.found3d
       THEN ext_pc' = "lookup2d" /\ ext_out' = ext_out
       ELSE LET r == parse_sdf_geometry(ext_in.psi4_string, ext_in.n_atoms)
            IN  CASE r.raised = "none" ->
                       /\ ext_pc' = "returned"
                       /\ ext_out' = [raised |-> "none", sentinel |-> FALSE,
                                      opf_geom |-> r.opf_geom]
                  [] r.raised = "IndexError" ->
                       ext_pc' = "lookup2d" /\ ext_out' = ext_out
                  [] OTHER ->
                       /\ ext_pc' = "raised"
                       /\ ext_out' = [raised |-> r.raised, sentinel |-> FALSE,
                                      opf_geom |-> <<>>]
    /\ UNCHANGED <<ext_in, runVars, rdmVars, ampVars, tplVars, geoVars>>

\* The inner try block and its except IndexError clause (opf_geom = 0).
lookup2d ==
    /\ ext_pc = "lookup2d"
    /\ ext_log' = Append(ext_log, "2d")
    /\ IF ~ext_in.found2d
       THEN /\ ext_pc' = "returned"
            /\ ext_out' = [raised |-> "none", sentinel |-> TRUE, opf_geom |-> <<>>]
       ELSE LET r == parse_psi4_geometry(ext_in.sdf, ext_in.n_atoms)
            IN  CASE r.raised = "none" ->
                       /\ ext_pc' = "returned"
                       /\ ext_out' = [raised |-> "none", sentinel |-> FALSE,
                                      opf_geom |-> r.opf_geom]
                  [] r.raised = "IndexError" ->
                       /\ ext_pc' = "returned"
                       /\ ext_out' = [raised |-> "none", sentinel |-> TRUE,
                                      opf_geom |-> <<>>]
                  [] OTHER ->
                       /\ ext_pc' = "raised"
                       /\ ext_out' = [raised |-> r.raised, sentinel |-> FALSE,
                                      opf_geom |-> <<>>]
    /\ UNCHANGED <<ext_in, runVars, rdmVars, ampVars, tplVars, geoVars>>

NextExt == lookup3d \/ lookup2d

SpecExt == InitExt /\ [][NextExt]_vars

\* C12: the 2d lookup is attempted only after the 3d lookup found no
\* compound; extract returns the sentinel 0 exactly when both lookups found
\* no compound; a lookup that finds no compound never makes extract raise.
C12_TwoTierLookup ==
    /\ (\E n \in DOMAIN ext_log : ext_log[n] = "2d") => ~ext_in.found3d
    /\ ext_pc = "returned" =>
          (ext_out.sentinel <=> (~ext_in.found3d /\ ~ext_in.found2d))
    /\ ext_pc = "raised" =>
          IF Len(ext_log) = 1 THEN ext_in.found3d ELSE ext_in.found2d

====
